---- MODULE Spec2Model ----
(***************************************************************************)
(* Model of the fixture scripts of TicketHelpLFC/CreditTracker:            *)
(*   scripts/fetch-lfc-ics.mjs            (ICS parser / normalizer)        *)
(*   scripts/fetch-footballdata-lfc.mjs   (REST variant)                   *)
(*   scripts/fetch-api-football-fixtures.mjs (REST variants)               *)
(*                                                                         *)
(* A JavaScript string is a sequence of characters, each character being   *)
(* a one-letter TLA+ string.  Characters outside ASCII are named:          *)
(*   "NBSP" U+00A0, "ENDASH" U+2013, "EMDASH" U+2014, "SOCCER" U+26BD.     *)
(* JavaScript null is `null` for the goal counts and NoMatch for a failed  *)
(* regular-expression match.                                               *)
(***************************************************************************)
EXTENDS Integers, Sequences, FiniteSets, TLC

VARIABLES
    pc,        \* where the run is: "compose", "fetch", "body", "exited", ...
    script,    \* which script runs
    env,       \* TRUE iff the required environment value is set
    events,    \* the calendar events the remote resource is composed of
    text,      \* body of the remote calendar resource (icsRaw)
    fetches,   \* number of fetches that returned a success status
    perBlock,  \* what each block's iteration pushed on parseICS's `out`
    parsed,    \* value returned by parseICS(text)
    fixtures,  \* main's `fixtures`
    file,      \* the output file
    exitCode,  \* process exit status once pc = "exited"
    stderr,    \* what console.error reported: "" or the kind of error
    once,      \* unwrapIcsText(text)
    twice,     \* unwrapIcsText(once)
    hay3,      \* <<summary, description, location>> for detectCompetition
    competition \* detectCompetition's result on hay3

vars == <<pc, script, env, events, text, fetches, perBlock, parsed, fixtures,
          file, exitCode, stderr, once, twice, hay3, competition>>

----------------------------------------------------------------------------
(* Characters and strings *)

Digits == {"0", "1", "2", "3", "4", "5", "6", "7", "8", "9"}

\* JavaScript white space (\s, String.prototype.trim), within the alphabet
WhiteSpace == {" ", "\t", "\n", "\r", "NBSP"}

\* line terminators: what `.` does not match and what ^ and $ see under /m
LineTerm == {"\n", "\r"}

Upper == <<"A", "B", "C", "D", "E", "F", "G", "H", "I", "J", "K", "L", "M",
           "N", "O", "P", "Q", "R", "S", "T", "U", "V", "W", "X", "Y", "Z">>
Lower == <<"a", "b", "c", "d", "e", "f", "g", "h", "i", "j", "k", "l", "m",
           "n", "o", "p", "q", "r", "s", "t", "u", "v", "w", "x", "y", "z">>

LowerChar(c) ==
    IF \E k \in 1..26 : Upper[k] = c
    THEN Lower[CHOOSE k \in 1..26 : Upper[k] = c]
    ELSE c

toLowerCase(s) == [i \in 1..Len(s) |-> LowerChar(s[i])]

\* UTF-16 code unit of the characters a date string is made of
CodeUnit(c) ==
    CASE c = "-" -> 45
      [] c = "0" -> 48 [] c = "1" -> 49 [] c = "2" -> 50 [] c = "3" -> 51
      [] c = "4" -> 52 [] c = "5" -> 53 [] c = "6" -> 54 [] c = "7" -> 55
      [] c = "8" -> 56 [] c = "9" -> 57
      [] c = ":" -> 58

Min(S) == CHOOSE x \in S : \A y \in S : x <= y
Max(S) == CHOOSE x \in S : \A y \in S : x >= y

\* s.slice(from - 1): the characters from index `from` to the end
Tail_(s, from) == SubSeq(s, from, Len(s))

\* JavaScript's < on strings: code unit order, a proper prefix is smaller
RECURSIVE StrLess(_, _)
StrLess(a, b) ==
    IF b = <<>> THEN FALSE
    ELSE IF a = <<>> THEN TRUE
    ELSE IF a[1] # b[1] THEN CodeUnit(a[1]) < CodeUnit(b[1])
    ELSE StrLess(Tail(a), Tail(b))

\* t occurs in s at index p
OccursAt(s, t, p) ==
    /\ p >= 1
    /\ p + Len(t) - 1 <= Len(s)
    /\ \A k \in 1..Len(t) : s[p + k - 1] = t[k]

\* String.prototype.includes
includes(s, t) == \E p \in 1..(Len(s) + 1) : OccursAt(s, t, p)

\* String.prototype.trim
trim(s) ==
    LET keep == {i \in 1..Len(s) : s[i] \notin WhiteSpace}
    IN  IF keep = {} THEN <<>> ELSE SubSeq(s, Min(keep), Max(keep))

\* index of the last character of the longest run of characters of class C
\* that starts at index p (p - 1 when the run is empty)
RunEnd(s, p, C) ==
    LET stop == {q \in p..Len(s) : s[q] \notin C}
    IN  IF p > Len(s) THEN p - 1
        ELSE IF stop = {} THEN Len(s)
        ELSE Min(stop) - 1

\* Number(digits) for a string of decimal digits
RECURSIVE Number(_)
Number(d) ==
    IF d = <<>> THEN 0
    ELSE 10 * Number(SubSeq(d, 1, Len(d) - 1))
         + (CodeUnit(d[Len(d)]) - 48)

null == -1

----------------------------------------------------------------------------
(* fetch-lfc-ics.mjs: constants *)

FROM == <<"2", "0", "2", "5", "-", "0", "8", "-", "0", "1">>
TO   == <<"2", "0", "2", "6", "-", "0", "7", "-", "3", "1">>

\* slug: lower case, & becomes "and", everything outside [a-z0-9] removed
RECURSIVE slugChars(_)
slugChars(s) ==
    IF s = <<>> THEN <<>>
    ELSE LET c == s[1]
             r == slugChars(Tail(s))
         IN  IF c = "&" THEN <<"a", "n", "d">> \o r
             ELSE IF c \in Digits \/ (\E k \in 1..26 : Lower[k] = c)
                  THEN <<c>> \o r
                  ELSE r

slug(s) == trim(slugChars(toLowerCase(s)))

\* length of the fold (\r?\n[ \t]) that starts at index i, 0 when none does
FoldLenAt(raw, i) ==
    IF /\ i + 2 <= Len(raw)
       /\ raw[i] = "\r" /\ raw[i + 1] = "\n" /\ raw[i + 2] \in {" ", "\t"}
    THEN 3
    ELSE IF /\ i + 1 <= Len(raw)
            /\ raw[i] = "\n" /\ raw[i + 1] \in {" ", "\t"}
         THEN 2
         ELSE 0

\* the indices where the matches of /\r?\n[ \t]/g start: the scan runs left
\* to right and resumes after each match, so the \n of a \r\n fold that was
\* matched from its \r starts no match of its own
FoldStarts(raw) ==
    {i \in 1..Len(raw) :
        /\ FoldLenAt(raw, i) > 0
        /\ ~(i > 1 /\ FoldLenAt(raw, i - 1) = 3)}

\* an unfolding that takes every space and tab after the line break:
\* /\r?\n[ \t]+/g
unwrapGreedy(raw) ==
    LET starts  == FoldStarts(raw)
        removed == UNION {i..RunEnd(raw, i + FoldLenAt(raw, i) - 1, {" ", "\t"}) :
                            i \in starts}
        indexed == [i \in 1..Len(raw) |-> <<i, raw[i]>>]
        kept    == SelectSeq(indexed, LAMBDA x : x[1] \notin removed)
    IN  [k \in 1..Len(kept) |-> kept[k][2]]

\* raw.replace(/\r?\n[ \t]/g, ""): the characters of the matches are removed
unwrapIcsText(raw) ==
    LET starts  == FoldStarts(raw)
        removed == UNION {i..(i + FoldLenAt(raw, i) - 1) : i \in starts}
        indexed == [i \in 1..Len(raw) |-> <<i, raw[i]>>]
        kept    == SelectSeq(indexed, LAMBDA x : x[1] \notin removed)
    IN  [k \in 1..Len(kept) |-> kept[k][2]]

NoMatch == [matched |-> FALSE, date |-> <<>>, time |-> <<>>,
            hh |-> <<>>, mm |-> <<>>]

AllDigits(s, from, to) ==
    /\ to <= Len(s)
    /\ \A k \in from..to : s[k] \in Digits

\* a start-time parser that takes a day of one digit: /^(\d{4})(\d{2})(\d{1,2})/
parseDTSTARTShortDay(v) ==
    IF ~AllDigits(v, 1, 7) THEN NoMatch
    ELSE LET e == IF AllDigits(v, 1, 8) THEN 8 ELSE 7
         IN  [matched |-> TRUE,
              date |-> SubSeq(v, 1, 4) \o <<"-">> \o SubSeq(v, 5, 6)
                       \o <<"-">> \o SubSeq(v, 7, e),
              time |-> <<"0", "0", ":", "0", "0">>,
              hh |-> <<"0", "0">>, mm |-> <<"0", "0">>]

\* /^(\d{4})(\d{2})(\d{2})(?:T(\d{2})(\d{2})(\d{2}))?/
parseDTSTART(v) ==
    IF ~AllDigits(v, 1, 8) THEN NoMatch
    ELSE LET date == SubSeq(v, 1, 4) \o <<"-">> \o SubSeq(v, 5, 6)
                     \o <<"-">> \o SubSeq(v, 7, 8)
             hasTime == /\ Len(v) >= 15
                        /\ v[9] = "T"
                        /\ AllDigits(v, 10, 15)
             hh == IF hasTime THEN SubSeq(v, 10, 11) ELSE <<"0", "0">>
             mm == IF hasTime THEN SubSeq(v, 12, 13) ELSE <<"0", "0">>
         IN  [matched |-> TRUE, date |-> date, time |-> hh \o <<":">> \o mm,
              hh |-> hh, mm |-> mm]

\* index of the first character of the value when
\* /^key(?:;[^:]*)?:(.*)$/m matches with the key at index p, 0 otherwise
ValueStart(block, key, p) ==
    LET q == p + Len(key)
        colons == {r \in (q + 1)..Len(block) : block[r] = ":"}
    IN  IF ~((p = 1 \/ block[p - 1] \in LineTerm) /\ OccursAt(block, key, p))
        THEN 0
        ELSE IF q > Len(block) THEN 0
        ELSE IF block[q] = ":" THEN q + 1
        ELSE IF block[q] = ";" /\ colons # {} THEN Min(colons) + 1
        ELSE 0

\* index of the last character of the line that index v lies on
LineEnd(block, v) ==
    LET stop == {q \in v..Len(block) : block[q] \in LineTerm}
    IN  IF stop = {} THEN Len(block) ELSE Min(stop) - 1

\* the first match in the block; (.*) runs to the end of the line
getLine(block, key) ==
    LET hits == {p \in 1..Len(block) : ValueStart(block, key, p) > 0}
    IN  IF hits = {} THEN <<>>
        ELSE LET v == ValueStart(block, key, Min(hits))
             IN  trim(SubSeq(block, v, LineEnd(block, v)))

Emoji == {"SOCCER"}

\* .replace(/\s+/g, " "): every run of white space becomes one space
RECURSIVE collapseSpaces(_)
collapseSpaces(s) ==
    IF s = <<>> THEN <<>>
    ELSE IF s[1] \in WhiteSpace
         THEN <<" ">> \o collapseSpaces(Tail_(s, RunEnd(s, 1, WhiteSpace) + 1))
         ELSE <<s[1]>> \o collapseSpaces(Tail(s))

cleanSummary(s) ==
    LET noEmoji == SelectSeq(s, LAMBDA c : c \notin Emoji)
        noNbsp  == [i \in 1..Len(noEmoji) |->
                      IF noEmoji[i] = "NBSP" THEN " " ELSE noEmoji[i]]
    IN  trim(collapseSpaces(noNbsp))

\* Steps of a match.  A cursor is the index of the next character to match,
\* 0 once the match has failed.

\* a greedy run of one or more characters of class C: \s+, \d+
Plus(s, p, C) ==
    IF p = 0 \/ p > Len(s) THEN 0
    ELSE IF s[p] \notin C THEN 0
    ELSE RunEnd(s, p, C) + 1

\* a greedy run of zero or more characters of class C: \s*
Star(s, p, C) == IF p = 0 THEN 0 ELSE RunEnd(s, p, C) + 1

\* one character of class C
One(s, p, C) ==
    IF p = 0 \/ p > Len(s) THEN 0
    ELSE IF s[p] \in C THEN p + 1 ELSE 0

\* an optional character of class C, taken when it is there: (?:s)?  \.?
Maybe(s, p, C) ==
    IF p = 0 THEN 0
    ELSE IF p <= Len(s) /\ s[p] \in C THEN p + 1 ELSE p

\* the characters s[from..to] are such as `.` matches
Dots(s, from, to) == \A k \in from..to : s[k] \notin LineTerm

\* the last group (.+?)$ after white space that ran greedily from index w
\* to just before index p and may give characters back, down to index
\* w + least: the index where the group starts, 0 when there is no match
LastGroup(s, w, p, least) ==
    IF w = 0 \/ p = 0 THEN 0
    ELSE LET ok == {b \in (w + least)..p : b <= Len(s) /\ Dots(s, b, Len(s))}
         IN  IF ok = {} THEN 0 ELSE Max(ok)

\* /^(.+?)\s+(\d+)\s*[-ENDASH]\s*(\d+)\s+(.+?)$/ with the first group
\* s[1..i]: where group 2 starts, where it ends (the cursor after it),
\* where group 3 starts and ends, and where group 4 starts
ScoreG2(s, i) == IF Dots(s, 1, i) THEN Plus(s, i + 1, WhiteSpace) ELSE 0
ScoreG2End(s, i) == Plus(s, ScoreG2(s, i), Digits)
ScoreG3(s, i) ==
    Star(s, One(s, Star(s, ScoreG2End(s, i), WhiteSpace), {"-", "ENDASH"}),
        WhiteSpace)
ScoreG3End(s, i) == Plus(s, ScoreG3(s, i), Digits)
ScoreG4From(s, w) == LastGroup(s, w, Plus(s, w, WhiteSpace), 1)
ScoreG4(s, i) == ScoreG4From(s, ScoreG3End(s, i))

\* /^(.+?)\s+v(?:s)?\.?\s+(.+?)$/i with the first group s[1..i]: where
\* group 2 starts
VsG2From(s, w) == LastGroup(s, w, Plus(s, w, WhiteSpace), 1)
VsG2(s, i) ==
    IF Dots(s, 1, i)
    THEN VsG2From(s, Maybe(s, Maybe(s, One(s, Plus(s, i + 1, WhiteSpace),
                                             {"v", "V"}),
                                      {"s", "S"}),
                               {"."}))
    ELSE 0

\* /^(.+?)\s*[ENDASH EMDASH -]\s*(.+?)$/ with the first group s[1..i]
DashG2From(s, w) == LastGroup(s, w, Star(s, w, WhiteSpace), 0)
DashG2(s, i) ==
    IF Dots(s, 1, i)
    THEN DashG2From(s, One(s, Star(s, i + 1, WhiteSpace),
                           {"ENDASH", "EMDASH", "-"}))
    ELSE 0

\* the lazy first group (.+?) is the shortest one the rest matches after
Shortest(ends) == IF ends = {} THEN 0 ELSE Min(ends)

NoTeams == [a |-> <<>>, b |-> <<>>, homeGoals |-> null, awayGoals |-> null]

\* what splitTeams returns for the match sc whose first group is s[1..i]
scoreResult(s, i) ==
    IF i = 0 THEN <<>>
    ELSE << [a |-> trim(SubSeq(s, 1, i)),
             b |-> trim(Tail_(s, ScoreG4(s, i))),
             homeGoals |-> Number(SubSeq(s, ScoreG2(s, i), ScoreG2End(s, i) - 1)),
             awayGoals |-> Number(SubSeq(s, ScoreG3(s, i), ScoreG3End(s, i) - 1))] >>

\* s.match(score): <<>> for null, else what splitTeams returns for it
scoreTeams(s) ==
    scoreResult(s, Shortest({i \in 1..Len(s) : ScoreG4(s, i) > 0}))

\* what splitTeams returns for a match of two groups, the first s[1..i],
\* the second from index g
namesResult(s, i, g) ==
    IF i = 0 THEN <<>>
    ELSE << [a |-> trim(SubSeq(s, 1, i)),
             b |-> trim(Tail_(s, g)),
             homeGoals |-> null, awayGoals |-> null] >>

vsResult(s, i) == namesResult(s, i, IF i = 0 THEN 0 ELSE VsG2(s, i))

\* s.match(vs)
vsTeams(s) == vsResult(s, Shortest({i \in 1..Len(s) : VsG2(s, i) > 0}))

dashResult(s, i) == namesResult(s, i, IF i = 0 THEN 0 ELSE DashG2(s, i))

\* s.match(dash)
dashTeams(s) == dashResult(s, Shortest({i \in 1..Len(s) : DashG2(s, i) > 0}))

\* the first of the three matches that is not null
firstMatch(sc, vs, dash) ==
    IF sc # <<>> THEN sc[1]
    ELSE IF vs # <<>> THEN vs[1]
    ELSE IF dash # <<>> THEN dash[1]
    ELSE NoTeams

splitClean(s) == firstMatch(scoreTeams(s), vsTeams(s), dashTeams(s))

\* a splitter that tries the "v" shape before the score shape
splitCleanVsFirst(s) == firstMatch(vsTeams(s), scoreTeams(s), dashTeams(s))

splitTeamsVsFirst(summaryRaw) == splitCleanVsFirst(cleanSummary(summaryRaw))

splitTeams(summaryRaw) == splitClean(cleanSummary(summaryRaw))

\* the literals of the script
K_ChampionsLeague == <<"c", "h", "a", "m", "p", "i", "o", "n", "s", " ", "l", "e", "a", "g", "u", "e">>
K_UefaChampionsLeague == <<"u", "e", "f", "a", " ", "c", "h", "a", "m", "p", "i", "o", "n", "s", " ", "l", "e", "a", "g", "u", "e">>
K_Ucl == <<"u", "c", "l">>
K_FaCup == <<"f", "a", " ", "c", "u", "p">>
K_EmiratesFaCup == <<"e", "m", "i", "r", "a", "t", "e", "s", " ", "f", "a", " ", "c", "u", "p">>
K_Carabao == <<"c", "a", "r", "a", "b", "a", "o">>
K_EflCup == <<"e", "f", "l", " ", "c", "u", "p">>
K_LeagueCup == <<"l", "e", "a", "g", "u", "e", " ", "c", "u", "p">>
K_Friendly == <<"f", "r", "i", "e", "n", "d", "l", "y">>
K_PreSeason == <<"p", "r", "e", "-", "s", "e", "a", "s", "o", "n">>
K_ClubFriendly == <<"c", "l", "u", "b", " ", "f", "r", "i", "e", "n", "d", "l", "y">>
K_CommunityShield == <<"c", "o", "m", "m", "u", "n", "i", "t", "y", " ", "s", "h", "i", "e", "l", "d">>
K_SuperCup == <<"s", "u", "p", "e", "r", " ", "c", "u", "p">>
K_Draw == <<"d", "r", "a", "w">>
K_FixtureRelease == <<"f", "i", "x", "t", "u", "r", "e", " ", "r", "e", "l", "e", "a", "s", "e">>
K_KickOffTimes == <<"k", "i", "c", "k", "-", "o", "f", "f", " ", "t", "i", "m", "e", "s">>
K_Liverpool == <<"l", "i", "v", "e", "r", "p", "o", "o", "l">>
K_BeginVevent == <<"B", "E", "G", "I", "N", ":", "V", "E", "V", "E", "N", "T">>
K_Dtstart == <<"D", "T", "S", "T", "A", "R", "T">>
K_Summary == <<"S", "U", "M", "M", "A", "R", "Y">>
K_Description == <<"D", "E", "S", "C", "R", "I", "P", "T", "I", "O", "N">>
K_Location == <<"L", "O", "C", "A", "T", "I", "O", "N">>

CompUCL   == <<"U", "C", "L">>
CompFAC   == <<"F", "A", "C">>
CompLC    == <<"L", "C">>
CompOTHER == <<"O", "T", "H", "E", "R">>
CompPL    == <<"P", "L">>

\* the keyword lookups of detectCompetition on the lower-cased text
firstThree(hay) ==
    IF \/ includes(hay, K_ChampionsLeague)
       \/ includes(hay, K_UefaChampionsLeague)
       \/ includes(hay, K_Ucl)
    THEN CompUCL
    ELSE IF includes(hay, K_FaCup) \/ includes(hay, K_EmiratesFaCup)
    THEN CompFAC
    ELSE IF \/ includes(hay, K_Carabao)
            \/ includes(hay, K_EflCup)
            \/ includes(hay, K_LeagueCup)
    THEN CompLC
    ELSE <<>>

notLeague(hay) ==
    \/ includes(hay, K_Friendly)
    \/ includes(hay, K_PreSeason)
    \/ includes(hay, K_ClubFriendly)
    \/ includes(hay, K_CommunityShield)
    \/ includes(hay, K_SuperCup)

detectIn(hay, cup) ==
    IF cup # <<>> THEN cup
    ELSE IF notLeague(hay) THEN CompOTHER
    ELSE CompPL

\* a classifier whose default is OTHER
detectInDefaultOther(hay, cup) == IF cup # <<>> THEN cup ELSE CompOTHER

haystack(summary, description, location) ==
    toLowerCase(summary \o <<" ">> \o description \o <<" ">> \o location)

detectLower(hay) == detectIn(hay, firstThree(hay))

detectLowerDefaultOther(hay) == detectInDefaultOther(hay, firstThree(hay))

detectCompetitionDefaultOther(summary, description, location) ==
    detectLowerDefaultOther(haystack(summary, description, location))

detectCompetition(summary, description, location) ==
    detectLower(haystack(summary, description, location))

nonMatch(s) ==
    \/ s = <<>>
    \/ includes(s, K_Draw)
    \/ includes(s, K_FixtureRelease)
    \/ includes(s, K_KickOffTimes)

isNonMatchEvent(summaryRaw) == nonMatch(toLowerCase(cleanSummary(summaryRaw)))

\* a window filter with exclusive bounds
inWindowExclusive(date) == StrLess(FROM, date) /\ StrLess(date, TO)

\* the season window filter: FALSE when the loop `continue`s
inWindow(date) == ~(StrLess(date, FROM) \/ StrLess(TO, date))

\* a resolution that lets every pair of names through
hasLfcOrFallback(teamA, teamB) == TRUE

\* the home-club resolution: FALSE when the loop `continue`s
hasLfc(teamA, teamB) ==
    \/ includes(toLowerCase(teamA), K_Liverpool)
    \/ includes(toLowerCase(teamB), K_Liverpool)

venueOf(teamA) ==
    IF includes(toLowerCase(teamA), K_Liverpool) THEN <<"H">> ELSE <<"A">>

\* an opponent that is always the right-hand name
opponentAlwaysRight(teamA, teamB) == teamB

opponentOf(teamA, teamB) ==
    IF includes(toLowerCase(teamA), K_Liverpool) THEN teamB ELSE teamA

\* dt.time.replace(":", ""): the first colon is removed
dropColon(t) ==
    LET at == {k \in 1..Len(t) : t[k] = ":"}
    IN  IF at = {} THEN t
        ELSE SubSeq(t, 1, Min(at) - 1) \o Tail_(t, Min(at) + 1)

makeId(dt, comp, opponent, venue) ==
    dt.date \o <<"-">> \o slug(comp) \o <<"-">> \o slug(opponent) \o <<"-">>
    \o toLowerCase(venue) \o <<"-">> \o dropColon(dt.time)

\* the record of an iteration that reaches out.push
record(dt, comp, opponent, venue, location, teams) ==
    [source |-> "ics",
     id |-> makeId(dt, comp, opponent, venue),
     date |-> dt.date,
     time |-> dt.time,
     datetime_utc |-> dt.date \o <<"T">> \o dt.hh \o <<":">> \o dt.mm
                      \o <<":", "0", "0", "Z">>,
     competition |-> comp,
     opponent |-> opponent,
     venue |-> venue,
     location |-> location,
     homeGoals |-> teams.homeGoals,
     awayGoals |-> teams.awayGoals]

\* the iteration from splitTeams on
pushedTeams(dt, summary, description, location, teams) ==
    IF teams.a = <<>> \/ teams.b = <<>> THEN <<>>
    ELSE IF ~hasLfc(teams.a, teams.b) THEN <<>>
    ELSE << record(dt, detectCompetition(summary, description, location),
                   opponentOf(teams.a, teams.b), venueOf(teams.a),
                   location, teams) >>

\* the iteration from the season window filter on
pushedDated(dt, summary, description, location) ==
    IF ~dt.matched THEN <<>>
    ELSE IF ~inWindow(dt.date) THEN <<>>
    ELSE IF isNonMatchEvent(summary) THEN <<>>
    ELSE pushedTeams(dt, summary, description, location, splitTeams(summary))

pushedStart(dtstart, summary, description, location) ==
    IF dtstart = <<>> THEN <<>>
    ELSE pushedDated(parseDTSTART(dtstart), summary, description, location)

\* what one iteration of the loop pushes on `out`: <<>> after a `continue`
pushed(block) ==
    pushedStart(getLine(block, K_Dtstart),
                cleanSummary(getLine(block, K_Summary)),
                getLine(block, K_Description),
                getLine(block, K_Location))

\* ics.split("BEGIN:VEVENT").slice(1).map((b) => "BEGIN:VEVENT" + b)
splitBlocks(ics) ==
    LET at == {p \in 1..Len(ics) : OccursAt(ics, K_BeginVevent, p)}
        nextAt(p) == IF \E q \in at : q > p
                     THEN Min({q \in at : q > p})
                     ELSE Len(ics) + 1
        RECURSIVE from(_)
        from(p) == IF p > Len(ics) THEN <<>>
                   ELSE <<SubSeq(ics, p, nextAt(p) - 1)>> \o from(nextAt(p))
    IN  IF at = {} THEN <<>> ELSE from(Min(at))

\* a de-duplication that keeps the last record of an id instead of the first
RECURSIVE dedupeKeepLast(_, _)
dedupeKeepLast(out, seen) ==
    IF out = <<>> THEN <<>>
    ELSE IF \E k \in 2..Len(out) : out[k].id = out[1].id
         THEN dedupeKeepLast(Tail(out), seen)
         ELSE <<out[1]>> \o dedupeKeepLast(Tail(out), seen)

\* out.filter((x) => (seen.has(x.id) ? false : (seen.add(x.id), true)))
RECURSIVE dedupe(_, _)
dedupe(out, seen) ==
    IF out = <<>> THEN <<>>
    ELSE IF out[1].id \in seen THEN dedupe(Tail(out), seen)
    ELSE <<out[1]>> \o dedupe(Tail(out), seen \cup {out[1].id})

\* the for loop over the blocks
RECURSIVE collect(_)
collect(blocks) ==
    IF blocks = <<>> THEN <<>>
    ELSE pushed(blocks[1]) \o collect(Tail(blocks))

parseICS(icsRaw) ==
    dedupe(collect(splitBlocks(unwrapIcsText(icsRaw))), {})

\* collation weight of the characters of date + time (localeCompare orders
\* punctuation before digits)
Weight(c) ==
    CASE c = "-" -> 1 [] c = ":" -> 2 [] OTHER -> CodeUnit(c)

\* (a.date + a.time).localeCompare(b.date + b.time): -1, 0 or 1
RECURSIVE localeCompare(_, _)
localeCompare(a, b) ==
    IF a = <<>> /\ b = <<>> THEN 0
    ELSE IF a = <<>> THEN -1
    ELSE IF b = <<>> THEN 1
    ELSE IF Weight(a[1]) < Weight(b[1]) THEN -1
    ELSE IF Weight(a[1]) > Weight(b[1]) THEN 1
    ELSE localeCompare(Tail(a), Tail(b))

compareFn(a, b) == localeCompare(a.date \o a.time, b.date \o b.time)

\* an insertion that puts x before the elements it compares equal to
insertBeforeEqual(arr, x) ==
    LET notLess == {k \in 1..Len(arr) : compareFn(arr[k], x) >= 0}
        at == IF notLess = {} THEN Len(arr) + 1 ELSE Min(notLess)
    IN  SubSeq(arr, 1, at - 1) \o <<x>> \o Tail_(arr, at)

\* x put into the sorted array after every element that does not compare
\* greater than it
insertSorted(arr, x) ==
    LET greater == {k \in 1..Len(arr) : compareFn(arr[k], x) > 0}
        at == IF greater = {} THEN Len(arr) + 1 ELSE Min(greater)
    IN  SubSeq(arr, 1, at - 1) \o <<x>> \o Tail_(arr, at)

\* Array.prototype.sort with compareFn: the sort is stable (ECMAScript 2019)
RECURSIVE sort(_)
sort(arr) ==
    IF arr = <<>> THEN <<>>
    ELSE insertSorted(sort(SubSeq(arr, 1, Len(arr) - 1)), arr[Len(arr)])

----------------------------------------------------------------------------
(* The remote calendar: a header, the events, a footer *)

CRLF == <<"\r", "\n">>
LF   == <<"\n">>

\* BEGIN:VCALENDAR\r\nVERSION:2.0\r\n
CalHeader ==
    <<"B", "E", "G", "I", "N", ":", "V", "C", "A", "L", "E", "N", "D", "A",
      "R", "\r", "\n", "V", "E", "R", "S", "I", "O", "N", ":", "2", ".",
      "0", "\r", "\n">>

\* END:VCALENDAR\r\n
CalFooter ==
    <<"E", "N", "D", ":", "V", "C", "A", "L", "E", "N", "D", "A", "R",
      "\r", "\n">>

\* END:VEVENT
EndVevent ==
    <<"E", "N", "D", ":", "V", "E", "V", "E", "N", "T">>

RECURSIVE joinLines(_, _)
joinLines(lines, eol) ==
    IF lines = <<>> THEN <<>>
    ELSE lines[1] \o eol \o joinLines(Tail(lines), eol)

eventText(e) ==
    K_BeginVevent \o e.eol \o joinLines(e.lines, e.eol) \o EndVevent \o e.eol

RECURSIVE calendarBody(_)
calendarBody(es) ==
    IF es = <<>> THEN <<>> ELSE eventText(es[1]) \o calendarBody(Tail(es))

calendarText(es) == CalHeader \o calendarBody(es) \o CalFooter

----------------------------------------------------------------------------
(* The events the remote calendar is composed of.  `day` and `summary`   *)
(* restate what the event's lines say: the date of its DTSTART as a      *)
(* number (0 when it has none) and the value of its SUMMARY.             *)

(* events of the runs: duplicates, equal and different start times *)

\* DTSTART:20250816T140000Z | SUMMARY:Liverpool v Chelsea
RunEvent1 ==
    [lines |-> <<
        <<"D", "T", "S", "T", "A", "R", "T", ":", "2", "0", "2", "5",
            "0", "8", "1", "6", "T", "1", "4", "0", "0", "0", "0", "Z">>,
        <<"S", "U", "M", "M", "A", "R", "Y", ":", "L", "i", "v", "e",
            "r", "p", "o", "o", "l", " ", "v", " ", "C", "h", "e", "l",
            "s", "e", "a">>>>,
     eol |-> CRLF,
     day |-> 20250816,
     summary |->
        <<"L", "i", "v", "e", "r", "p", "o", "o", "l", " ", "v", " ",
            "C", "h", "e", "l", "s", "e", "a">>]

\* DTSTART:20250816T140000Z | SUMMARY:Liverpool 2-0 Chelsea | LOCATION:Anfield   (same id as the first)
RunEvent2 ==
    [lines |-> <<
        <<"D", "T", "S", "T", "A", "R", "T", ":", "2", "0", "2", "5",
            "0", "8", "1", "6", "T", "1", "4", "0", "0", "0", "0", "Z">>,
        <<"S", "U", "M", "M", "A", "R", "Y", ":", "L", "i", "v", "e",
            "r", "p", "o", "o", "l", " ", "2", "-", "0", " ", "C", "h",
            "e", "l", "s", "e", "a">>,
        <<"L", "O", "C", "A", "T", "I", "O", "N", ":", "A", "n", "f",
            "i", "e", "l", "d">>>>,
     eol |-> LF,
     day |-> 20250816,
     summary |->
        <<"L", "i", "v", "e", "r", "p", "o", "o", "l", " ", "2", "-",
            "0", " ", "C", "h", "e", "l", "s", "e", "a">>]

\* DTSTART:20250816T140000Z | SUMMARY:Liverpool v Everton   (same date and time, another id)
RunEvent3 ==
    [lines |-> <<
        <<"D", "T", "S", "T", "A", "R", "T", ":", "2", "0", "2", "5",
            "0", "8", "1", "6", "T", "1", "4", "0", "0", "0", "0", "Z">>,
        <<"S", "U", "M", "M", "A", "R", "Y", ":", "L", "i", "v", "e",
            "r", "p", "o", "o", "l", " ", "v", " ", "E", "v", "e", "r",
            "t", "o", "n">>>>,
     eol |-> CRLF,
     day |-> 20250816,
     summary |->
        <<"L", "i", "v", "e", "r", "p", "o", "o", "l", " ", "v", " ",
            "E", "v", "e", "r", "t", "o", "n">>]

\* DTSTART:20250809T110000Z | SUMMARY:Arsenal v Liverpool
RunEvent4 ==
    [lines |-> <<
        <<"D", "T", "S", "T", "A", "R", "T", ":", "2", "0", "2", "5",
            "0", "8", "0", "9", "T", "1", "1", "0", "0", "0", "0", "Z">>,
        <<"S", "U", "M", "M", "A", "R", "Y", ":", "A", "r", "s", "e",
            "n", "a", "l", " ", "v", " ", "L", "i", "v", "e", "r", "p",
            "o", "o", "l">>>>,
     eol |-> LF,
     day |-> 20250809,
     summary |->
        <<"A", "r", "s", "e", "n", "a", "l", " ", "v", " ", "L", "i",
            "v", "e", "r", "p", "o", "o", "l">>]

\* DTSTART;VALUE=DATE:20250816 | SUMMARY:Liverpool v Chelsea   (date only: time 00:00)
RunEvent5 ==
    [lines |-> <<
        <<"D", "T", "S", "T", "A", "R", "T", ";", "V", "A", "L", "U",
            "E", "=", "D", "A", "T", "E", ":", "2", "0", "2", "5", "0",
            "8", "1", "6">>,
        <<"S", "U", "M", "M", "A", "R", "Y", ":", "L", "i", "v", "e",
            "r", "p", "o", "o", "l", " ", "v", " ", "C", "h", "e", "l",
            "s", "e", "a">>>>,
     eol |-> CRLF,
     day |-> 20250816,
     summary |->
        <<"L", "i", "v", "e", "r", "p", "o", "o", "l", " ", "v", " ",
            "C", "h", "e", "l", "s", "e", "a">>]

\* SUMMARY:Liverpool v Chelsea   (no DTSTART)
RunEvent6 ==
    [lines |-> <<
        <<"S", "U", "M", "M", "A", "R", "Y", ":", "L", "i", "v", "e",
            "r", "p", "o", "o", "l", " ", "v", " ", "C", "h", "e", "l",
            "s", "e", "a">>>>,
     eol |-> CRLF,
     day |-> 0,
     summary |->
        <<"L", "i", "v", "e", "r", "p", "o", "o", "l", " ", "v", " ",
            "C", "h", "e", "l", "s", "e", "a">>]

RunEvents == {RunEvent1, RunEvent2, RunEvent3, RunEvent4, RunEvent5, RunEvent6}

(* events around the season window, and events without a start date *)

\* DTSTART:20250731T235900Z | SUMMARY:Liverpool v Chelsea
WindowEvent1 ==
    [lines |-> <<
        <<"D", "T", "S", "T", "A", "R", "T", ":", "2", "0", "2", "5",
            "0", "7", "3", "1", "T", "2", "3", "5", "9", "0", "0", "Z">>,
        <<"S", "U", "M", "M", "A", "R", "Y", ":", "L", "i", "v", "e",
            "r", "p", "o", "o", "l", " ", "v", " ", "C", "h", "e", "l",
            "s", "e", "a">>>>,
     eol |-> CRLF,
     day |-> 20250731,
     summary |->
        <<"L", "i", "v", "e", "r", "p", "o", "o", "l", " ", "v", " ",
            "C", "h", "e", "l", "s", "e", "a">>]

\* DTSTART:20250801 | SUMMARY:Liverpool v Everton
WindowEvent2 ==
    [lines |-> <<
        <<"D", "T", "S", "T", "A", "R", "T", ":", "2", "0", "2", "5",
            "0", "8", "0", "1">>,
        <<"S", "U", "M", "M", "A", "R", "Y", ":", "L", "i", "v", "e",
            "r", "p", "o", "o", "l", " ", "v", " ", "E", "v", "e", "r",
            "t", "o", "n">>>>,
     eol |-> LF,
     day |-> 20250801,
     summary |->
        <<"L", "i", "v", "e", "r", "p", "o", "o", "l", " ", "v", " ",
            "E", "v", "e", "r", "t", "o", "n">>]

\* DTSTART;VALUE=DATE:20260731 | SUMMARY:Arsenal v Liverpool
WindowEvent3 ==
    [lines |-> <<
        <<"D", "T", "S", "T", "A", "R", "T", ";", "V", "A", "L", "U",
            "E", "=", "D", "A", "T", "E", ":", "2", "0", "2", "6", "0",
            "7", "3", "1">>,
        <<"S", "U", "M", "M", "A", "R", "Y", ":", "A", "r", "s", "e",
            "n", "a", "l", " ", "v", " ", "L", "i", "v", "e", "r", "p",
            "o", "o", "l">>>>,
     eol |-> CRLF,
     day |-> 20260731,
     summary |->
        <<"A", "r", "s", "e", "n", "a", "l", " ", "v", " ", "L", "i",
            "v", "e", "r", "p", "o", "o", "l">>]

\* DTSTART:20260801T000000Z | SUMMARY:Liverpool v Spurs
WindowEvent4 ==
    [lines |-> <<
        <<"D", "T", "S", "T", "A", "R", "T", ":", "2", "0", "2", "6",
            "0", "8", "0", "1", "T", "0", "0", "0", "0", "0", "0", "Z">>,
        <<"S", "U", "M", "M", "A", "R", "Y", ":", "L", "i", "v", "e",
            "r", "p", "o", "o", "l", " ", "v", " ", "S", "p", "u", "r",
            "s">>>>,
     eol |-> CRLF,
     day |-> 20260801,
     summary |->
        <<"L", "i", "v", "e", "r", "p", "o", "o", "l", " ", "v", " ",
            "S", "p", "u", "r", "s">>]

\* DTSTART:20250730 | SUMMARY:Liverpool v Leeds
WindowEvent5 ==
    [lines |-> <<
        <<"D", "T", "S", "T", "A", "R", "T", ":", "2", "0", "2", "5",
            "0", "7", "3", "0">>,
        <<"S", "U", "M", "M", "A", "R", "Y", ":", "L", "i", "v", "e",
            "r", "p", "o", "o", "l", " ", "v", " ", "L", "e", "e", "d",
            "s">>>>,
     eol |-> CRLF,
     day |-> 20250730,
     summary |->
        <<"L", "i", "v", "e", "r", "p", "o", "o", "l", " ", "v", " ",
            "L", "e", "e", "d", "s">>]

\* DTSTART;TZID=Europe/London:20260115T2000 | SUMMARY:Liverpool v Fulham   (no seconds: the time is dropped)
WindowEvent6 ==
    [lines |-> <<
        <<"D", "T", "S", "T", "A", "R", "T", ";", "T", "Z", "I", "D",
            "=", "E", "u", "r", "o", "p", "e", "/", "L", "o", "n", "d",
            "o", "n", ":", "2", "0", "2", "6", "0", "1", "1", "5", "T",
            "2", "0", "0", "0">>,
        <<"S", "U", "M", "M", "A", "R", "Y", ":", "L", "i", "v", "e",
            "r", "p", "o", "o", "l", " ", "v", " ", "F", "u", "l", "h",
            "a", "m">>>>,
     eol |-> CRLF,
     day |-> 20260115,
     summary |->
        <<"L", "i", "v", "e", "r", "p", "o", "o", "l", " ", "v", " ",
            "F", "u", "l", "h", "a", "m">>]

\* SUMMARY:Liverpool v Chelsea | DTEND:20250816T160000Z   (no DTSTART)
WindowEvent7 ==
    [lines |-> <<
        <<"S", "U", "M", "M", "A", "R", "Y", ":", "L", "i", "v", "e",
            "r", "p", "o", "o", "l", " ", "v", " ", "C", "h", "e", "l",
            "s", "e", "a">>,
        <<"D", "T", "E", "N", "D", ":", "2", "0", "2", "5", "0", "8",
            "1", "6", "T", "1", "6", "0", "0", "0", "0", "Z">>>>,
     eol |-> CRLF,
     day |-> 0,
     summary |->
        <<"L", "i", "v", "e", "r", "p", "o", "o", "l", " ", "v", " ",
            "C", "h", "e", "l", "s", "e", "a">>]

\* DTSTART:TBC | SUMMARY:Liverpool v Chelsea   (no date)
WindowEvent8 ==
    [lines |-> <<
        <<"D", "T", "S", "T", "A", "R", "T", ":", "T", "B", "C">>,
        <<"S", "U", "M", "M", "A", "R", "Y", ":", "L", "i", "v", "e",
            "r", "p", "o", "o", "l", " ", "v", " ", "C", "h", "e", "l",
            "s", "e", "a">>>>,
     eol |-> LF,
     day |-> 0,
     summary |->
        <<"L", "i", "v", "e", "r", "p", "o", "o", "l", " ", "v", " ",
            "C", "h", "e", "l", "s", "e", "a">>]

\* DTSTART:2025081 | SUMMARY:Liverpool v Chelsea   (seven digits)
WindowEvent9 ==
    [lines |-> <<
        <<"D", "T", "S", "T", "A", "R", "T", ":", "2", "0", "2", "5",
            "0", "8", "1">>,
        <<"S", "U", "M", "M", "A", "R", "Y", ":", "L", "i", "v", "e",
            "r", "p", "o", "o", "l", " ", "v", " ", "C", "h", "e", "l",
            "s", "e", "a">>>>,
     eol |-> CRLF,
     day |-> 0,
     summary |->
        <<"L", "i", "v", "e", "r", "p", "o", "o", "l", " ", "v", " ",
            "C", "h", "e", "l", "s", "e", "a">>]

\* DTSTART:T14000020250816 | SUMMARY:Liverpool v Chelsea   (the date does not come first)
WindowEvent10 ==
    [lines |-> <<
        <<"D", "T", "S", "T", "A", "R", "T", ":", "T", "1", "4", "0",
            "0", "0", "0", "2", "0", "2", "5", "0", "8", "1", "6">>,
        <<"S", "U", "M", "M", "A", "R", "Y", ":", "L", "i", "v", "e",
            "r", "p", "o", "o", "l", " ", "v", " ", "C", "h", "e", "l",
            "s", "e", "a">>>>,
     eol |-> CRLF,
     day |-> 0,
     summary |->
        <<"L", "i", "v", "e", "r", "p", "o", "o", "l", " ", "v", " ",
            "C", "h", "e", "l", "s", "e", "a">>]

WindowEvents ==
    {WindowEvent1, WindowEvent2, WindowEvent3, WindowEvent4,
     WindowEvent5, WindowEvent6, WindowEvent7, WindowEvent8,
     WindowEvent9, WindowEvent10}

(* events of one in-window date with summaries of every shape *)

\* DTSTART:20250816T140000Z | SUMMARY:Liverpool 2-0 Chelsea
SummaryEvent1 ==
    [lines |-> <<
        <<"D", "T", "S", "T", "A", "R", "T", ":", "2", "0", "2", "5",
            "0", "8", "1", "6", "T", "1", "4", "0", "0", "0", "0", "Z">>,
        <<"S", "U", "M", "M", "A", "R", "Y", ":", "L", "i", "v", "e",
            "r", "p", "o", "o", "l", " ", "2", "-", "0", " ", "C", "h",
            "e", "l", "s", "e", "a">>>>,
     eol |-> CRLF,
     day |-> 20250816,
     summary |->
        <<"L", "i", "v", "e", "r", "p", "o", "o", "l", " ", "2", "-",
            "0", " ", "C", "h", "e", "l", "s", "e", "a">>]

\* DTSTART:20250816T140000Z | SUMMARY:Chelsea v Liverpool
SummaryEvent2 ==
    [lines |-> <<
        <<"D", "T", "S", "T", "A", "R", "T", ":", "2", "0", "2", "5",
            "0", "8", "1", "6", "T", "1", "4", "0", "0", "0", "0", "Z">>,
        <<"S", "U", "M", "M", "A", "R", "Y", ":", "C", "h", "e", "l",
            "s", "e", "a", " ", "v", " ", "L", "i", "v", "e", "r", "p",
            "o", "o", "l">>>>,
     eol |-> LF,
     day |-> 20250816,
     summary |->
        <<"C", "h", "e", "l", "s", "e", "a", " ", "v", " ", "L", "i",
            "v", "e", "r", "p", "o", "o", "l">>]

\* DTSTART:20250816T140000Z | SUMMARY:Chelsea 1-3 Liverpool
SummaryEvent3 ==
    [lines |-> <<
        <<"D", "T", "S", "T", "A", "R", "T", ":", "2", "0", "2", "5",
            "0", "8", "1", "6", "T", "1", "4", "0", "0", "0", "0", "Z">>,
        <<"S", "U", "M", "M", "A", "R", "Y", ":", "C", "h", "e", "l",
            "s", "e", "a", " ", "1", "-", "3", " ", "L", "i", "v", "e",
            "r", "p", "o", "o", "l">>>>,
     eol |-> CRLF,
     day |-> 20250816,
     summary |->
        <<"C", "h", "e", "l", "s", "e", "a", " ", "1", "-", "3", " ",
            "L", "i", "v", "e", "r", "p", "o", "o", "l">>]

\* DTSTART:20250816T140000Z | SUMMARY:Liverpool vs. Everton
SummaryEvent4 ==
    [lines |-> <<
        <<"D", "T", "S", "T", "A", "R", "T", ":", "2", "0", "2", "5",
            "0", "8", "1", "6", "T", "1", "4", "0", "0", "0", "0", "Z">>,
        <<"S", "U", "M", "M", "A", "R", "Y", ":", "L", "i", "v", "e",
            "r", "p", "o", "o", "l", " ", "v", "s", ".", " ", "E", "v",
            "e", "r", "t", "o", "n">>>>,
     eol |-> LF,
     day |-> 20250816,
     summary |->
        <<"L", "i", "v", "e", "r", "p", "o", "o", "l", " ", "v", "s",
            ".", " ", "E", "v", "e", "r", "t", "o", "n">>]

\* DTSTART:20250816T140000Z | SUMMARY:Liverpool <ENDASH> Arsenal
SummaryEvent5 ==
    [lines |-> <<
        <<"D", "T", "S", "T", "A", "R", "T", ":", "2", "0", "2", "5",
            "0", "8", "1", "6", "T", "1", "4", "0", "0", "0", "0", "Z">>,
        <<"S", "U", "M", "M", "A", "R", "Y", ":", "L", "i", "v", "e",
            "r", "p", "o", "o", "l", " ", "ENDASH", " ", "A", "r", "s",
            "e", "n", "a", "l">>>>,
     eol |-> CRLF,
     day |-> 20250816,
     summary |->
        <<"L", "i", "v", "e", "r", "p", "o", "o", "l", " ", "ENDASH",
            " ", "A", "r", "s", "e", "n", "a", "l">>]

\* DTSTART:20250816T140000Z | SUMMARY:Arsenal v Chelsea
SummaryEvent6 ==
    [lines |-> <<
        <<"D", "T", "S", "T", "A", "R", "T", ":", "2", "0", "2", "5",
            "0", "8", "1", "6", "T", "1", "4", "0", "0", "0", "0", "Z">>,
        <<"S", "U", "M", "M", "A", "R", "Y", ":", "A", "r", "s", "e",
            "n", "a", "l", " ", "v", " ", "C", "h", "e", "l", "s", "e",
            "a">>>>,
     eol |-> LF,
     day |-> 20250816,
     summary |->
        <<"A", "r", "s", "e", "n", "a", "l", " ", "v", " ", "C", "h",
            "e", "l", "s", "e", "a">>]

\* DTSTART:20250816T140000Z | SUMMARY:Arsenal 1-1 Chelsea
SummaryEvent7 ==
    [lines |-> <<
        <<"D", "T", "S", "T", "A", "R", "T", ":", "2", "0", "2", "5",
            "0", "8", "1", "6", "T", "1", "4", "0", "0", "0", "0", "Z">>,
        <<"S", "U", "M", "M", "A", "R", "Y", ":", "A", "r", "s", "e",
            "n", "a", "l", " ", "1", "-", "1", " ", "C", "h", "e", "l",
            "s", "e", "a">>>>,
     eol |-> CRLF,
     day |-> 20250816,
     summary |->
        <<"A", "r", "s", "e", "n", "a", "l", " ", "1", "-", "1", " ",
            "C", "h", "e", "l", "s", "e", "a">>]

\* DTSTART:20250816T140000Z | SUMMARY:LIVERPOOL V Spurs
SummaryEvent8 ==
    [lines |-> <<
        <<"D", "T", "S", "T", "A", "R", "T", ":", "2", "0", "2", "5",
            "0", "8", "1", "6", "T", "1", "4", "0", "0", "0", "0", "Z">>,
        <<"S", "U", "M", "M", "A", "R", "Y", ":", "L", "I", "V", "E",
            "R", "P", "O", "O", "L", " ", "V", " ", "S", "p", "u", "r",
            "s">>>>,
     eol |-> LF,
     day |-> 20250816,
     summary |->
        <<"L", "I", "V", "E", "R", "P", "O", "O", "L", " ", "V", " ",
            "S", "p", "u", "r", "s">>]

\* DTSTART:20250816T140000Z | SUMMARY:Everton - liverpool fc
SummaryEvent9 ==
    [lines |-> <<
        <<"D", "T", "S", "T", "A", "R", "T", ":", "2", "0", "2", "5",
            "0", "8", "1", "6", "T", "1", "4", "0", "0", "0", "0", "Z">>,
        <<"S", "U", "M", "M", "A", "R", "Y", ":", "E", "v", "e", "r",
            "t", "o", "n", " ", "-", " ", "l", "i", "v", "e", "r", "p",
            "o", "o", "l", " ", "f", "c">>>>,
     eol |-> CRLF,
     day |-> 20250816,
     summary |->
        <<"E", "v", "e", "r", "t", "o", "n", " ", "-", " ", "l", "i",
            "v", "e", "r", "p", "o", "o", "l", " ", "f", "c">>]

\* DTSTART:20250816T140000Z | SUMMARY:Liverpool
SummaryEvent10 ==
    [lines |-> <<
        <<"D", "T", "S", "T", "A", "R", "T", ":", "2", "0", "2", "5",
            "0", "8", "1", "6", "T", "1", "4", "0", "0", "0", "0", "Z">>,
        <<"S", "U", "M", "M", "A", "R", "Y", ":", "L", "i", "v", "e",
            "r", "p", "o", "o", "l">>>>,
     eol |-> LF,
     day |-> 20250816,
     summary |->
        <<"L", "i", "v", "e", "r", "p", "o", "o", "l">>]

\* DTSTART:20250816T140000Z | SUMMARY:FA Cup draw: Liverpool v Leeds
SummaryEvent11 ==
    [lines |-> <<
        <<"D", "T", "S", "T", "A", "R", "T", ":", "2", "0", "2", "5",
            "0", "8", "1", "6", "T", "1", "4", "0", "0", "0", "0", "Z">>,
        <<"S", "U", "M", "M", "A", "R", "Y", ":", "F", "A", " ", "C",
            "u", "p", " ", "d", "r", "a", "w", ":", " ", "L", "i", "v",
            "e", "r", "p", "o", "o", "l", " ", "v", " ", "L", "e", "e",
            "d", "s">>>>,
     eol |-> CRLF,
     day |-> 20250816,
     summary |->
        <<"F", "A", " ", "C", "u", "p", " ", "d", "r", "a", "w", ":",
            " ", "L", "i", "v", "e", "r", "p", "o", "o", "l", " ", "v",
            " ", "L", "e", "e", "d", "s">>]

\* DTSTART:20250816T140000Z | SUMMARY:<SOCCER> Liverpool<NBSP> 12 <ENDASH> 0  Leeds
SummaryEvent12 ==
    [lines |-> <<
        <<"D", "T", "S", "T", "A", "R", "T", ":", "2", "0", "2", "5",
            "0", "8", "1", "6", "T", "1", "4", "0", "0", "0", "0", "Z">>,
        <<"S", "U", "M", "M", "A", "R", "Y", ":", "SOCCER", " ", "L",
            "i", "v", "e", "r", "p", "o", "o", "l", "NBSP", " ", "1", "2",
            " ", "ENDASH", " ", "0", " ", " ", "L", "e", "e", "d", "s">>>>,
     eol |-> LF,
     day |-> 20250816,
     summary |->
        <<"SOCCER", " ", "L", "i", "v", "e", "r", "p", "o", "o", "l",
            "NBSP", " ", "1", "2", " ", "ENDASH", " ", "0", " ", " ", "L",
            "e", "e", "d", "s">>]

\* DTSTART:20250816T140000Z | SUMMARY:Liverpool v Leeds 2-1 Spurs
SummaryEvent13 ==
    [lines |-> <<
        <<"D", "T", "S", "T", "A", "R", "T", ":", "2", "0", "2", "5",
            "0", "8", "1", "6", "T", "1", "4", "0", "0", "0", "0", "Z">>,
        <<"S", "U", "M", "M", "A", "R", "Y", ":", "L", "i", "v", "e",
            "r", "p", "o", "o", "l", " ", "v", " ", "L", "e", "e", "d",
            "s", " ", "2", "-", "1", " ", "S", "p", "u", "r", "s">>>>,
     eol |-> CRLF,
     day |-> 20250816,
     summary |->
        <<"L", "i", "v", "e", "r", "p", "o", "o", "l", " ", "v", " ",
            "L", "e", "e", "d", "s", " ", "2", "-", "1", " ", "S", "p",
            "u", "r", "s">>]

\* DTSTART:20250816T140000Z | SUMMARY:Liverpool v Leeds - Spurs
SummaryEvent14 ==
    [lines |-> <<
        <<"D", "T", "S", "T", "A", "R", "T", ":", "2", "0", "2", "5",
            "0", "8", "1", "6", "T", "1", "4", "0", "0", "0", "0", "Z">>,
        <<"S", "U", "M", "M", "A", "R", "Y", ":", "L", "i", "v", "e",
            "r", "p", "o", "o", "l", " ", "v", " ", "L", "e", "e", "d",
            "s", " ", "-", " ", "S", "p", "u", "r", "s">>>>,
     eol |-> LF,
     day |-> 20250816,
     summary |->
        <<"L", "i", "v", "e", "r", "p", "o", "o", "l", " ", "v", " ",
            "L", "e", "e", "d", "s", " ", "-", " ", "S", "p", "u", "r",
            "s">>]

\* DTSTART:20250816T140000Z | SUMMARY:Liverpool 2-0
SummaryEvent15 ==
    [lines |-> <<
        <<"D", "T", "S", "T", "A", "R", "T", ":", "2", "0", "2", "5",
            "0", "8", "1", "6", "T", "1", "4", "0", "0", "0", "0", "Z">>,
        <<"S", "U", "M", "M", "A", "R", "Y", ":", "L", "i", "v", "e",
            "r", "p", "o", "o", "l", " ", "2", "-", "0">>>>,
     eol |-> CRLF,
     day |-> 20250816,
     summary |->
        <<"L", "i", "v", "e", "r", "p", "o", "o", "l", " ", "2", "-",
            "0">>]

\* DTSTART:20250816T140000Z | SUMMARY:Leeds2-0Liverpool
SummaryEvent16 ==
    [lines |-> <<
        <<"D", "T", "S", "T", "A", "R", "T", ":", "2", "0", "2", "5",
            "0", "8", "1", "6", "T", "1", "4", "0", "0", "0", "0", "Z">>,
        <<"S", "U", "M", "M", "A", "R", "Y", ":", "L", "e", "e", "d",
            "s", "2", "-", "0", "L", "i", "v", "e", "r", "p", "o", "o",
            "l">>>>,
     eol |-> LF,
     day |-> 20250816,
     summary |->
        <<"L", "e", "e", "d", "s", "2", "-", "0", "L", "i", "v", "e",
            "r", "p", "o", "o", "l">>]

SummaryEvents ==
    {SummaryEvent1, SummaryEvent2, SummaryEvent3, SummaryEvent4,
     SummaryEvent5, SummaryEvent6, SummaryEvent7, SummaryEvent8,
     SummaryEvent9, SummaryEvent10, SummaryEvent11, SummaryEvent12,
     SummaryEvent13, SummaryEvent14, SummaryEvent15, SummaryEvent16}

----------------------------------------------------------------------------
(* The run of a script *)

Scripts == {"fetch-lfc-ics", "fetch-footballdata-lfc",
            "fetch-api-football-fixtures"}

\* api() calls a run makes before it writes
apiCalls(sc) == IF sc = "fetch-api-football-fixtures" THEN 2 ELSE 1

FileAbsent    == [status |-> "absent", count |-> 0, fixtures |-> <<>>]
FileTruncated == [status |-> "truncated", count |-> 0, fixtures |-> <<>>]

\* JSON.stringify({..., count: fixtures.length, fixtures}) written whole
document(fx) == [status |-> "written", count |-> Len(fx), fixtures |-> fx]

\* console.error(e) and process.exit(1), from the top-level check or from
\* main().catch
exit1(e) ==
    /\ stderr' = e
    /\ pc' = "exited"
    /\ exitCode' = 1

\* fs.mkdirSync and fs.writeFileSync with the batch fx, then console.log
\* and the end of main: the process exits with status 0.  A throwing fs
\* call reaches main().catch, with nothing or a truncated file on disk.
writeOut(fx, fs) ==
    IF fs = "ok"
    THEN /\ file' = document(fx)
         /\ pc' = "exited"
         /\ exitCode' = 0
         /\ UNCHANGED stderr
    ELSE /\ file' = IF fs = "throws-mid" THEN FileTruncated ELSE FileAbsent
         /\ exit1("fs")

FsOutcomes == {"ok", "throws", "throws-mid"}

\* the top level of the module: the environment check, then main() up to
\* its first await (the fetch is sent)
Load ==
    /\ pc = "compose"
    /\ IF ~env
       THEN /\ exit1("env")
            /\ UNCHANGED text
       ELSE /\ pc' = "fetch"
            /\ text' = IF script = "fetch-lfc-ics"
                       THEN calendarText(events) ELSE text
            /\ UNCHANGED <<exitCode, stderr>>
    /\ UNCHANGED <<script, env, events, fetches, perBlock, parsed, fixtures,
                   file, once, twice, hay3, competition>>

\* a fetch step without the `if (!res.ok) throw`
FetchSettlesUnchecked(outcome) ==
    /\ pc = "fetch"
    /\ IF outcome # "rejected"
       THEN /\ pc' = "body"
            /\ fetches' = IF outcome = "ok" THEN fetches + 1 ELSE fetches
            /\ UNCHANGED <<exitCode, stderr>>
       ELSE /\ exit1(outcome)
            /\ UNCHANGED fetches
    /\ UNCHANGED <<script, env, events, text, perBlock, parsed, fixtures,
                   file, once, twice, hay3, competition>>

\* the awaited fetch settles: rejected, or resolved with res.ok or not
FetchSettles(outcome) ==
    /\ pc = "fetch"
    /\ IF outcome = "ok"
       THEN /\ pc' = "body"
            /\ fetches' = fetches + 1
            /\ UNCHANGED <<exitCode, stderr>>
       ELSE /\ exit1(outcome)
            /\ UNCHANGED fetches
    /\ UNCHANGED <<script, env, events, text, perBlock, parsed, fixtures,
                   file, once, twice, hay3, competition>>

\* fetch-lfc-ics main: res.text() settles; parseICS, sort, write
TextSettles(outcome, fs) ==
    /\ pc = "body"
    /\ script = "fetch-lfc-ics"
    /\ IF outcome = "ok"
       THEN /\ perBlock' = LET blocks == splitBlocks(unwrapIcsText(text))
                           IN  [i \in 1..Len(blocks) |-> pushed(blocks[i])]
            /\ parsed' = parseICS(text)
            /\ fixtures' = sort(parsed')
            /\ writeOut(fixtures', fs)
       ELSE /\ exit1("body")
            /\ UNCHANGED <<perBlock, parsed, fixtures, file>>
    /\ UNCHANGED <<script, env, events, text, fetches, once, twice, hay3,
                   competition>>

\* the REST scripts: res.json() of an api() call settles.  matches is the
\* response's list (modelled by its ids), hasId whether the team search
\* of fetch-api-football-fixtures found a team id.
JsonSettles(outcome, matches, hasId, fs) ==
    /\ pc = "body"
    /\ script # "fetch-lfc-ics"
    /\ IF outcome # "ok"
       THEN /\ exit1("body")
            /\ UNCHANGED <<fixtures, file>>
       ELSE IF fetches < apiCalls(script)
       THEN \* getLiverpoolTeamId
            /\ UNCHANGED <<fixtures, file>>
            /\ IF hasId
               THEN /\ pc' = "fetch"
                    /\ UNCHANGED <<exitCode, stderr>>
               ELSE exit1("no team id")
       ELSE /\ fixtures' = matches
            /\ writeOut(matches, fs)
    /\ UNCHANGED <<script, env, events, text, fetches, perBlock, parsed,
                   once, twice, hay3, competition>>


----------------------------------------------------------------------------
(* Bounds *)

MaxEvents        == 3   \* events of a calendar of RunEvents
MaxWindowEvents  == 2   \* events of a calendar of WindowEvents
MaxSummaryEvents == 1   \* events of a calendar of SummaryEvents
MaxMatches       == 2   \* matches in a REST response
MaxRawLen        == 4   \* characters of a raw text to unfold

----------------------------------------------------------------------------
(* Specifications *)

\* the remote server's calendar gets one more event
Compose(bank, max) ==
    /\ pc = "compose"
    /\ script = "fetch-lfc-ics"
    /\ Len(events) < max
    /\ \E e \in bank : events' = Append(events, e)
    /\ UNCHANGED <<pc, script, env, text, fetches, perBlock, parsed,
                   fixtures, file, exitCode, stderr, once, twice, hay3,
                   competition>>

InitRun(scripts) ==
    /\ pc = "compose"
    /\ script \in scripts
    /\ env \in BOOLEAN
    /\ events = <<>>
    /\ text = <<>>
    /\ fetches = 0
    /\ perBlock = <<>>
    /\ parsed = <<>>
    /\ fixtures = <<>>
    /\ file = FileAbsent
    /\ exitCode = -1
    /\ stderr = ""
    /\ once = <<>>
    /\ twice = <<>>
    /\ hay3 = <<>>
    /\ competition = <<>>

MatchLists == {[i \in 1..n |-> i] : n \in 0..MaxMatches}

IcsSteps ==
    \/ Load
    \/ \E outcome \in {"ok", "status", "rejected"} : FetchSettles(outcome)
    \/ \E outcome \in {"ok", "rejected"}, fs \in FsOutcomes :
          TextSettles(outcome, fs)

RestSteps ==
    \E outcome \in {"ok", "rejected"}, matches \in MatchLists,
       hasId \in BOOLEAN, fs \in FsOutcomes :
          JsonSettles(outcome, matches, hasId, fs)

\* every script, the calendar made of RunEvents
Init == InitRun(Scripts)
Next == Compose(RunEvents, MaxEvents) \/ IcsSteps \/ RestSteps
Spec == Init /\ [][Next]_vars

\* fetch-lfc-ics on calendars of WindowEvents
InitWindow == InitRun({"fetch-lfc-ics"})
NextWindow == Compose(WindowEvents, MaxWindowEvents) \/ IcsSteps
SpecWindow == InitWindow /\ [][NextWindow]_vars

\* fetch-lfc-ics on calendars of SummaryEvents
InitSummary == InitRun({"fetch-lfc-ics"})
NextSummary == Compose(SummaryEvents, MaxSummaryEvents) \/ IcsSteps
SpecSummary == InitSummary /\ [][NextSummary]_vars

(* detectCompetition on its own *)

\* Liverpool v Chelsea
CompSummary1 ==
    <<"L", "i", "v", "e", "r", "p", "o", "o", "l", " ", "v", " ", "C", "h",
      "e", "l", "s", "e", "a">>

\* Liverpool v Chelsea (FA Cup)
CompSummary2 ==
    <<"L", "i", "v", "e", "r", "p", "o", "o", "l", " ", "v", " ", "C", "h",
      "e", "l", "s", "e", "a", " ", "(", "F", "A", " ", "C", "u", "p", ")">>

\* UCL: Liverpool v Real Madrid
CompSummary3 ==
    <<"U", "C", "L", ":", " ", "L", "i", "v", "e", "r", "p", "o", "o", "l",
      " ", "v", " ", "R", "e", "a", "l", " ", "M", "a", "d", "r", "i", "d">>

\* Liverpool v Leeds - Premier League
CompSummary4 ==
    <<"L", "i", "v", "e", "r", "p", "o", "o", "l", " ", "v", " ", "L", "e",
      "e", "d", "s", " ", "-", " ", "P", "r", "e", "m", "i", "e", "r", " ",
      "L", "e", "a", "g", "u", "e">>

\* Pre-Season Friendly: Liverpool v Milan
CompSummary5 ==
    <<"P", "r", "e", "-", "S", "e", "a", "s", "o", "n", " ", "F", "r", "i",
      "e", "n", "d", "l", "y", ":", " ", "L", "i", "v", "e", "r", "p", "o",
      "o", "l", " ", "v", " ", "M", "i", "l", "a", "n">>

\* Community Shield: Liverpool v Palace
CompSummary6 ==
    <<"C", "o", "m", "m", "u", "n", "i", "t", "y", " ", "S", "h", "i", "e",
      "l", "d", ":", " ", "L", "i", "v", "e", "r", "p", "o", "o", "l", " ",
      "v", " ", "P", "a", "l", "a", "c", "e">>

CompSummaries ==
    {CompSummary1, CompSummary2, CompSummary3, CompSummary4, CompSummary5, CompSummary6}

\* 
CompDescription1 ==
    <<>>

\* Premier League
CompDescription2 ==
    <<"P", "r", "e", "m", "i", "e", "r", " ", "L", "e", "a", "g", "u", "e">>

\* Carabao Cup
CompDescription3 ==
    <<"C", "a", "r", "a", "b", "a", "o", " ", "C", "u", "p">>

\* UEFA Champions League
CompDescription4 ==
    <<"U", "E", "F", "A", " ", "C", "h", "a", "m", "p", "i", "o", "n", "s",
      " ", "L", "e", "a", "g", "u", "e">>

\* Emirates FA Cup
CompDescription5 ==
    <<"E", "m", "i", "r", "a", "t", "e", "s", " ", "F", "A", " ", "C", "u",
      "p">>

\* EFL Cup - League Cup
CompDescription6 ==
    <<"E", "F", "L", " ", "C", "u", "p", " ", "-", " ", "L", "e", "a", "g",
      "u", "e", " ", "C", "u", "p">>

CompDescriptions ==
    {CompDescription1, CompDescription2, CompDescription3, CompDescription4, CompDescription5, CompDescription6}

\* 
CompLocation1 ==
    <<>>

\* Anfield
CompLocation2 ==
    <<"A", "n", "f", "i", "e", "l", "d">>

\* Wembley (FA Cup final)
CompLocation3 ==
    <<"W", "e", "m", "b", "l", "e", "y", " ", "(", "F", "A", " ", "C", "u",
      "p", " ", "f", "i", "n", "a", "l", ")">>

CompLocations ==
    {CompLocation1, CompLocation2, CompLocation3}

InitCompetition ==
    /\ pc = "detect"
    /\ hay3 \in CompSummaries \X CompDescriptions \X CompLocations
    /\ competition = <<>>
    /\ script = "fetch-lfc-ics"
    /\ env = TRUE
    /\ events = <<>>
    /\ text = <<>>
    /\ fetches = 0
    /\ perBlock = <<>>
    /\ parsed = <<>>
    /\ fixtures = <<>>
    /\ file = FileAbsent
    /\ exitCode = -1
    /\ stderr = ""
    /\ once = <<>>
    /\ twice = <<>>

Detect ==
    /\ pc = "detect"
    /\ competition' = detectCompetition(hay3[1], hay3[2], hay3[3])
    /\ pc' = "detected"
    /\ UNCHANGED <<script, env, events, text, fetches, perBlock, parsed,
                   fixtures, file, exitCode, stderr, once, twice, hay3>>

NextCompetition == Detect
SpecCompetition == InitCompetition /\ [][NextCompetition]_vars

(* unwrapIcsText on its own, on every raw text over RawChars *)

RawChars == {"\r", "\n", " ", "\t", "a"}

InitUnfold ==
    /\ pc = "raw"
    /\ text = <<>>
    /\ once = <<>>
    /\ twice = <<>>
    /\ script = "fetch-lfc-ics"
    /\ env = TRUE
    /\ events = <<>>
    /\ fetches = 0
    /\ perBlock = <<>>
    /\ parsed = <<>>
    /\ fixtures = <<>>
    /\ file = FileAbsent
    /\ exitCode = -1
    /\ stderr = ""
    /\ hay3 = <<>>
    /\ competition = <<>>

AppendChar(c) ==
    /\ pc = "raw"
    /\ Len(text) < MaxRawLen
    /\ text' = Append(text, c)
    /\ UNCHANGED <<pc, script, env, events, fetches, perBlock, parsed,
                   fixtures, file, exitCode, stderr, once, twice, hay3,
                   competition>>

Unfold ==
    /\ pc = "raw"
    /\ once' = unwrapIcsText(text)
    /\ twice' = unwrapIcsText(once')
    /\ pc' = "unfolded"
    /\ UNCHANGED <<script, env, events, text, fetches, perBlock, parsed,
                   fixtures, file, exitCode, stderr, hay3, competition>>

NextUnfold == (\E c \in RawChars : AppendChar(c)) \/ Unfold
SpecUnfold == InitUnfold /\ [][NextUnfold]_vars


----------------------------------------------------------------------------
(* Properties *)

RECURSIVE Flatten(_)
Flatten(ss) == IF ss = <<>> THEN <<>> ELSE ss[1] \o Flatten(Tail(ss))

\* the indices of `out` that hold the first record of their id
FirstOfId(out) ==
    {k \in 1..Len(out) : \A j \in 1..(k - 1) : out[j].id # out[k].id}

\* C1: the batch parseICS returns holds no id twice; the record kept for an
\* id is the one of the earliest block that yields the id, and the kept
\* records stand in the order of their blocks.
C1_FirstOccurrenceWins ==
    LET out == Flatten(perBlock)
        firsts == FirstOfId(out)
    IN  /\ \A m, n \in 1..Len(parsed) :
              m # n => parsed[m].id # parsed[n].id
        /\ Len(parsed) = Cardinality(firsts)
        /\ \A m \in 1..Len(parsed) :
              \E k \in firsts :
                 /\ parsed[m] = out[k]
                 /\ Cardinality({j \in firsts : j < k}) = m - 1
        /\ perBlock # <<>> => Len(perBlock) = Len(events)

\* a later block yields the id of an earlier one with another record, and
\* more than one record is kept
C1_Witness ==
    LET out == Flatten(perBlock)
    IN  /\ Len(parsed) >= 2
        /\ \E j, k \in 1..Len(out) :
              j < k /\ out[j].id = out[k].id /\ out[j] # out[k]

sortKey(r) == r.date \o r.time

\* the index of the record of r's id in the batch
IndexIn(batch, r) == CHOOSE k \in 1..Len(batch) : batch[k].id = r.id

\* C2: the fixtures array of the file written by fetch-lfc-ics is sorted
\* ascending by the string date + time, and records with equal date + time
\* keep the order they had in the batch parseICS returned.
C2_SortedAndStable ==
    (script = "fetch-lfc-ics" /\ file.status = "written") =>
        LET fx == file.fixtures
        IN  /\ Len(fx) = Len(parsed)
            /\ file.count = Len(parsed)
            /\ \A m \in 1..Len(parsed) : \E k \in 1..Len(fx) : fx[k] = parsed[m]
            /\ \A i, j \in 1..Len(fx) :
                  i < j => ~StrLess(sortKey(fx[j]), sortKey(fx[i]))
            /\ \A i, j \in 1..Len(fx) :
                  (i < j /\ sortKey(fx[i]) = sortKey(fx[j]))
                      => IndexIn(parsed, fx[i]) < IndexIn(parsed, fx[j])

\* a written file whose records the sort reordered and two of whose
\* records share date + time
C2_Witness ==
    /\ script = "fetch-lfc-ics"
    /\ file.status = "written"
    /\ file.fixtures # parsed
    /\ \E i, j \in 1..Len(file.fixtures) :
          /\ i < j
          /\ sortKey(file.fixtures[i]) = sortKey(file.fixtures[j])

\* C8: in every run of a script the file is written only when the required
\* environment value was present and every fetch returned a success
\* status; a missing environment value, a rejected fetch or a non-success
\* status ends the process with status 1 and no file; a run that writes
\* the file ends with status 0.
C8_AllOrNothing ==
    /\ file.status # "absent" => (env /\ fetches = apiCalls(script))
    /\ (~env /\ pc # "compose") => stderr = "env"
    /\ stderr \in {"env", "rejected", "status"}
          => (pc = "exited" /\ exitCode = 1 /\ file = FileAbsent)
    /\ file.status = "written" => (pc = "exited" /\ exitCode = 0)
    /\ pc = "exited" => exitCode \in {0, 1}
    /\ (pc = "exited" /\ exitCode = 0) => file.status = "written"

\* the second fetch of fetch-api-football-fixtures returns a non-success
\* status after the first one succeeded
C8_Witness ==
    /\ script = "fetch-api-football-fixtures"
    /\ fetches = 1
    /\ stderr = "status"
    /\ pc = "exited"

\* the season window as day numbers (yyyymmdd)
FromDay == 20250801
ToDay   == 20260731

\* the day number of a date string yyyy-mm-dd
DayOf(date) == Number(SelectSeq(date, LAMBDA c : c \in Digits))

\* C3: every record parseICS returns is dated within FROM..TO, both bounds
\* included: an event that passes the other filters is kept when its
\* date is 2025-08-01 or 2026-07-31 or between them, and dropped when it is
\* earlier or later.
C3_WindowInclusive ==
    /\ \A m \in 1..Len(parsed) :
          FromDay <= DayOf(parsed[m].date) /\ DayOf(parsed[m].date) <= ToDay
    /\ \A i \in 1..Len(perBlock) :
          events[i].day > 0 =>
             /\ perBlock[i] # <<>>
                   <=> (FromDay <= events[i].day /\ events[i].day <= ToDay)
             /\ perBlock[i] # <<>> => DayOf(perBlock[i][1].date) = events[i].day

\* an event dated 2026-07-31 is kept and one dated 2026-08-01 is dropped
C3_Witness ==
    \E i, j \in 1..Len(perBlock) :
       /\ events[i].day = ToDay
       /\ perBlock[i] # <<>>
       /\ parsed # <<>>
       /\ events[j].day = 20260801
       /\ perBlock[j] = <<>>

\* C4: a block with no DTSTART, or with a DTSTART that does not begin with
\* an 8-digit date, contributes no record, and the records of the batch are
\* those of the calendar without such blocks.
C4_NoStartNoRecord ==
    perBlock # <<>> =>
       /\ \A i \in 1..Len(perBlock) : events[i].day = 0 => perBlock[i] = <<>>
       /\ parsed = parseICS(calendarText(
                      SelectSeq(events, LAMBDA e : e.day # 0)))

\* a block without a start date stands before a block that gives a record
C4_Witness ==
    /\ Len(perBlock) >= 2
    /\ events[1].day = 0
    /\ perBlock[1] = <<>>
    /\ Len(parsed) >= 1

\* name holds the home-club token, in any case
ContainsLfc(name) ==
    \E p \in 1..Len(name) :
       /\ p + 8 <= Len(name)
       /\ \A k \in 1..9 : LowerChar(name[p + k - 1]) = K_Liverpool[k]

AllIn(s, from, to, C) == \A k \in from..to : s[k] \in C

\* the digit strings <<first, last>> that end before the dash at p, with
\* white space before them, a name before that, and at most white space
\* between them and the dash
LeftNumbers(s, p) ==
    {x \in (1..(p - 1)) \X (1..(p - 1)) :
        /\ 2 < x[1] /\ x[1] <= x[2]
        /\ s[x[1] - 1] \in WhiteSpace
        /\ AllIn(s, x[1], x[2], Digits)
        /\ AllIn(s, x[2] + 1, p - 1, WhiteSpace)}

\* the digit strings that start after the dash at p, likewise
RightNumbers(s, p) ==
    {x \in ((p + 1)..Len(s)) \X ((p + 1)..Len(s)) :
        /\ x[1] <= x[2] /\ x[2] + 1 < Len(s)
        /\ s[x[2] + 1] \in WhiteSpace
        /\ AllIn(s, x[1], x[2], Digits)
        /\ AllIn(s, p + 1, x[1] - 1, WhiteSpace)}

\* the goal pairs of the ways s reads as
\*   name, white space, digits, dash, digits, white space, name
\* with optional white space around the dash
ScoreShapes(s) ==
    UNION {{<<Number(SubSeq(s, l[1], l[2])), Number(SubSeq(s, r[1], r[2]))>> :
               l \in LeftNumbers(s, p), r \in RightNumbers(s, p)} :
           p \in {q \in 1..Len(s) : s[q] \in {"-", "ENDASH"}}}

Venue(i) == perBlock[i][1].venue
Opponent(i) == perBlock[i][1].opponent

\* C5: with the summary split into a left name a and a right name b, a
\* record has venue H and opponent b when a holds the home-club token, and
\* otherwise venue A and opponent a when b holds it.  "Liverpool 2-0
\* Chelsea" gives H and Chelsea, "Chelsea v Liverpool" gives A and Chelsea.
C5_VenueAndOpponent ==
    \A i \in 1..Len(perBlock) :
       LET t == splitTeams(events[i].summary)
       IN  /\ perBlock[i] # <<>> =>
                /\ ContainsLfc(t.a) =>
                      (Venue(i) = <<"H">> /\ Opponent(i) = t.b)
                /\ (~ContainsLfc(t.a) /\ ContainsLfc(t.b)) =>
                      (Venue(i) = <<"A">> /\ Opponent(i) = t.a)
           /\ events[i] = SummaryEvent1 =>
                /\ perBlock[i] # <<>>
                /\ Venue(i) = <<"H">>
                /\ Opponent(i) = <<"C", "h", "e", "l", "s", "e", "a">>
           /\ events[i] = SummaryEvent2 =>
                /\ perBlock[i] # <<>>
                /\ Venue(i) = <<"A">>
                /\ Opponent(i) = <<"C", "h", "e", "l", "s", "e", "a">>

\* the written file holds the away record of "Chelsea v Liverpool"
C5_Witness ==
    /\ file.status = "written"
    /\ \E k \in 1..Len(file.fixtures) :
          /\ file.fixtures[k].venue = <<"A">>
          /\ file.fixtures[k].opponent = <<"C", "h", "e", "l", "s", "e", "a">>
          /\ file.fixtures[k].homeGoals = null

\* the event passes every filter before the home-club resolution and the
\* token is in neither of its two names
NeitherIsLfc(e) ==
    LET t == splitTeams(e.summary)
    IN  /\ FromDay <= e.day /\ e.day <= ToDay
        /\ ~isNonMatchEvent(e.summary)
        /\ t.a # <<>> /\ t.b # <<>>
        /\ ~ContainsLfc(t.a) /\ ~ContainsLfc(t.b)

\* C6 as claimed: when the token is in neither name, a record is still
\* emitted, with the whole cleaned summary as opponent and venue H.
C6_FallbackRecord ==
    \A i \in 1..Len(perBlock) :
       NeitherIsLfc(events[i]) =>
          /\ perBlock[i] # <<>>
          /\ Opponent(i) = cleanSummary(events[i].summary)
          /\ Venue(i) = <<"H">>

\* C6 as the code has it: when the token is in neither name, the event is
\* dropped; every record of the batch has the token on one side.
C6_NoLfcNoRecord ==
    /\ \A i \in 1..Len(perBlock) :
          NeitherIsLfc(events[i]) => perBlock[i] = <<>>
    /\ Len(parsed) <= Cardinality({i \in 1..Len(perBlock) :
                                     ~NeitherIsLfc(events[i])})

\* a calendar with such an event was parsed
C6_Witness ==
    /\ pc = "exited"
    /\ file.status = "written"
    /\ \E i \in 1..Len(perBlock) : NeitherIsLfc(events[i])

GoalsOf(r) == <<r.homeGoals, r.awayGoals>>

\* C10: the goals of a record are both null or both non-negative; they are
\* non-null exactly when the summary has the score shape, and are then the
\* numbers left and right of the dash, whatever the venue.  The score
\* shape is tried before the "v" shape, and that before the dash shape.
C10_GoalsFollowScoreShape ==
    /\ \A m \in 1..Len(fixtures) :
          \/ GoalsOf(fixtures[m]) = <<null, null>>
          \/ fixtures[m].homeGoals >= 0 /\ fixtures[m].awayGoals >= 0
    /\ \A i \in 1..Len(perBlock) :
          perBlock[i] # <<>> =>
             LET r == perBlock[i][1]
                 shapes == ScoreShapes(cleanSummary(events[i].summary))
             IN  /\ r.homeGoals # null <=> shapes # {}
                 /\ r.awayGoals # null <=> shapes # {}
                 /\ shapes # {} => GoalsOf(r) \in shapes
                 /\ events[i] = SummaryEvent3 =>
                       (r.venue = <<"A">> /\ GoalsOf(r) = <<1, 3>>)
                 /\ events[i] = SummaryEvent13 =>
                       (GoalsOf(r) = <<2, 1>>
                        /\ r.opponent = <<"S", "p", "u", "r", "s">>)
                 /\ events[i] = SummaryEvent14 =>
                       (GoalsOf(r) = <<null, null>>
                        /\ r.opponent = <<"L", "e", "e", "d", "s", " ", "-",
                                          " ", "S", "p", "u", "r", "s">>)

\* the file holds an away record with the goals of "Chelsea 1-3 Liverpool"
C10_Witness ==
    /\ file.status = "written"
    /\ \E k \in 1..Len(file.fixtures) :
          /\ file.fixtures[k].venue = <<"A">>
          /\ GoalsOf(file.fixtures[k]) = <<1, 3>>

\* premier league
PremierLeague ==
    <<"p", "r", "e", "m", "i", "e", "r", " ", "l", "e", "a", "g", "u", "e">>

Codes == {CompPL, CompUCL, CompFAC, CompLC, CompOTHER}

\* the text the keywords are looked up in
Hay == toLowerCase(hay3[1] \o <<" ">> \o hay3[2] \o <<" ">> \o hay3[3])

\* the rows of `table` that have a keyword in Hay
Hits(table) ==
    {k \in 1..Len(table) : \E kw \in table[k].kws : includes(Hay, kw)}

FirstHit(table, default) ==
    IF Hits(table) = {} THEN default ELSE table[Min(Hits(table))].code

\* the keyword sets in the order the claim gives, the PL set being the
\* league's name
ClaimedTable ==
    << [code |-> CompUCL,
        kws |-> {K_ChampionsLeague, K_UefaChampionsLeague, K_Ucl}],
       [code |-> CompFAC, kws |-> {K_FaCup, K_EmiratesFaCup}],
       [code |-> CompLC, kws |-> {K_Carabao, K_EflCup, K_LeagueCup}],
       [code |-> CompPL, kws |-> {PremierLeague}] >>

\* the keyword sets in the order the script looks them up
ScriptTable ==
    << [code |-> CompUCL,
        kws |-> {K_ChampionsLeague, K_UefaChampionsLeague, K_Ucl}],
       [code |-> CompFAC, kws |-> {K_FaCup, K_EmiratesFaCup}],
       [code |-> CompLC, kws |-> {K_Carabao, K_EflCup, K_LeagueCup}],
       [code |-> CompOTHER,
        kws |-> {K_Friendly, K_PreSeason, K_ClubFriendly,
                 K_CommunityShield, K_SuperCup}] >>

\* C7 as claimed: the code of the first of the UCL, FAC, LC and PL keyword
\* sets with a keyword in summary + description + location, and OTHER when
\* no set has one.
C7_DefaultOther ==
    pc = "detected" =>
       /\ competition = FirstHit(ClaimedTable, CompOTHER)
       /\ competition \in Codes

\* C7 as the code has it: the code of the first of the UCL, FAC and LC
\* keyword sets with a keyword in the text; when none has one, OTHER if the
\* text names a friendly, pre-season, community shield or super cup, and PL
\* otherwise.  The result is one of PL, UCL, FAC, LC, OTHER.
C7_DefaultPL ==
    pc = "detected" =>
       /\ competition = FirstHit(ScriptTable, CompPL)
       /\ competition \in Codes

\* no keyword is in the text and the result is PL
C7_Witness ==
    /\ pc = "detected"
    /\ Hits(ScriptTable) = {}
    /\ Hits(ClaimedTable) = {}
    /\ competition = CompPL

\* raw[a..b] is one fold or several on end
RECURSIVE IsFolds(_, _, _)
IsFolds(raw, a, b) ==
    \/ /\ a + 1 <= b
       /\ raw[a] = "\n" /\ raw[a + 1] \in {" ", "\t"}
       /\ (a + 1 = b \/ IsFolds(raw, a + 2, b))
    \/ /\ a + 2 <= b
       /\ raw[a] = "\r" /\ raw[a + 1] = "\n" /\ raw[a + 2] \in {" ", "\t"}
       /\ (a + 2 = b \/ IsFolds(raw, a + 3, b))

\* raw holds a line feed, then folds, then a space or tab: unfolding it
\* brings the line feed and the space or tab together
HasChain(raw) ==
    \E i, j \in 1..Len(raw) :
       /\ raw[i] = "\n"
       /\ raw[j] \in {" ", "\t"}
       /\ IsFolds(raw, i + 1, j - 1)

\* C9 as claimed: unfolding an unfolded text changes nothing, for every
\* input text.
C9_Idempotent == pc = "unfolded" => twice = once

\* C9 as the code has it: unfolding an unfolded text changes nothing
\* exactly when the input holds no line feed followed by one or more folds
\* and then a space or tab.
C9_IdempotentUnlessChained ==
    pc = "unfolded" => (twice = once <=> ~HasChain(text))

\* a folded empty line: two folds on end were removed and the result is
\* unfolded
C9_Witness ==
    /\ pc = "unfolded"
    /\ Len(text) = Len(once) + 4
    /\ twice = once

====
